---- MODULE Spec2Model ----
(***************************************************************************)
(* PicCull (src/piccull.py): a Tk application that reviews a folder of     *)
(* images and discards the unwanted ones by moving them into a sibling     *)
(* ".deleted" folder, with a single level of undo.                         *)
(*                                                                         *)
(* File names are strings, modelled as sequences of character codes, so    *)
(* that pathlib's stem/suffix split, str.lower(), the formatting of the    *)
(* collision suffixes and the ordering of sorted() are computed rather     *)
(* than assumed.  A path is <<parent, name>>, the parent being the         *)
(* sequence of directory components.                                       *)
(***************************************************************************)
EXTENDS Integers, Sequences, FiniteSets, TLC

\* ------------------------------------------------------------------------
\* Bounds of the model
\* ------------------------------------------------------------------------
MaxFiles == 3


\* ------------------------------------------------------------------------
\* Strings and paths
\* ------------------------------------------------------------------------
\* Python's None: the empty tuple (paths, undo records and tiles are non-empty tuples)
None == <<>>

Max2(a, b) == IF a >= b THEN a ELSE b

Min2(a, b) == IF a <= b THEN a ELSE b

\* str(i) for a natural number i, as character codes
RECURSIVE Digits(_)
Digits(i) == IF i < 10 THEN <<48 + i>> ELSE Digits(i \div 10) \o <<48 + (i % 10)>>

\* str.lower() on one character / on a string
LowerChar(c) == IF c \in 65..90 THEN c + 32 ELSE c

Lower(s) == [k \in 1..Len(s) |-> LowerChar(s[k])]

\* position of the last "." that pathlib treats as starting the suffix, 0 if none
LastDot(name) ==
    LET dots == {k \in 2..(Len(name) - 1) : name[k] = 46}
    IN  IF dots = {} THEN 0 ELSE CHOOSE k \in dots : \A j \in dots : j <= k

\* Path.suffix and Path.stem of a file name
PathSuffix(name) == IF LastDot(name) = 0 THEN <<>> ELSE SubSeq(name, LastDot(name), Len(name))

PathStem(name) == IF LastDot(name) = 0 THEN name ELSE SubSeq(name, 1, LastDot(name) - 1)

\* lexicographic order of Python strings: s < t
RECURSIVE StrLess(_, _)
StrLess(s, t) ==
    IF t = <<>> THEN FALSE
    ELSE IF s = <<>> THEN TRUE
    ELSE IF s[1] # t[1] THEN s[1] < t[1]
    ELSE StrLess(Tail(s), Tail(t))

\* the three recognised extensions: ".jpg", ".jpeg", ".png"
IMG_EXTS == { <<46, 106, 112, 103>>, <<46, 106, 112, 101, 103>>, <<46, 112, 110, 103>> }

\* is_image(path)
is_image(path) == Lower(PathSuffix(path[2])) \in IMG_EXTS

\* base / ".deleted"
DeletedName == <<46, 100, 101, 108, 101, 116, 101, 100>>

DeletedDirOf(base) == Append(base, DeletedName)

\* f"{stem}-{i}{ext}"
DashName(name, i) == PathStem(name) \o <<45>> \o Digits(i) \o PathSuffix(name)

\* f"{stem}-restored-{i}{ext}"
RestoredName(name, i) ==
    PathStem(name) \o <<45, 114, 101, 115, 116, 111, 114, 101, 100, 45>> \o Digits(i) \o PathSuffix(name)


\* ------------------------------------------------------------------------
\* State
\* ------------------------------------------------------------------------
VARIABLES
    folder,          \* self.folder: None or the chosen directory
    images,          \* self.images: the Collection, a sequence of paths
    index,           \* self.index: the Selection Index (0-based, -1 for none)
    last_deleted,    \* self._last_deleted: None or the UndoRecord
    mode,            \* self.mode: "viewer" or "gallery"
    thumb_size,      \* self.thumb_size
    thumb_cache,     \* keys of self.thumb_cache: pairs <<path, size>>
    tiles,           \* self._gallery_tiles: None (placeholder) or a realized tile
    loaded_count,    \* self._gallery_loaded_count
    loading,         \* self._gallery_loading
    load_after,      \* self._gallery_load_after names a callback that is still pending
    resize_after,    \* self._resize_after_id names a callback that is still pending
    pil,             \* self.current_image_pil holds a decoded image
    controls,        \* enabled state of the toolbar buttons, counter binding, canvas arrows
    status,          \* what the status bar shows
    disk,            \* the files that exist: a set of paths
    dirs,            \* the ".deleted" directories that exist
    queue,           \* number of pending after() callbacks of each kind
    created,         \* the files other programs have created so far
    hung,            \* the UI thread is inside a loop that never ends
    session,         \* which part of the environment this session exercises (never changes)
    dialog,          \* the modal error box that is open: "none", "move" or "restore"
    run,             \* history: the pattern of successful deletes and undos just performed
    hist             \* history: the state before the last delete of run, the delete before it

vars == <<folder, images, index, last_deleted, mode, thumb_size, thumb_cache, tiles,
          loaded_count, loading, load_after, resize_after, pil, controls, status,
          disk, dirs, queue, created, hung, session, dialog, run, hist>>

\* The application object together with the environment its methods act on.
\* exc is the control state of the running handler: "none", "raise" (an
\* exception is propagating) or "hang" (a loop that cannot terminate); out
\* reports what the handler did.
Self ==
    [folder |-> folder, images |-> images, index |-> index, last_deleted |-> last_deleted,
     mode |-> mode, thumb_size |-> thumb_size, thumb_cache |-> thumb_cache, tiles |-> tiles,
     loaded_count |-> loaded_count, loading |-> loading, load_after |-> load_after,
     resize_after |-> resize_after, pil |-> pil, controls |-> controls, status |-> status,
     disk |-> disk, dirs |-> dirs, queue |-> queue, exc |-> "none", out |-> "none"]

\* ------------------------------------------------------------------------
\* Status bar, toolbar and viewer
\* ------------------------------------------------------------------------
\* _set_status: counter "i/n" and file name, or one of the two hints (the
\* transient "Moved to ..." / "Restored ..." suffix, extra, is not kept)
_set_status(s, extra) ==
    IF s.index = -1 \/ s.images = <<>>
    THEN [s EXCEPT !.status = [counter |-> None,
                               text |-> IF s.folder # None THEN "No images found"
                                        ELSE "Pick a folder to begin",
                               name |-> None]]
    ELSE IF s.index + 1 \notin 1..Len(s.images)
    THEN [s EXCEPT !.exc = "raise"]
    ELSE [s EXCEPT !.status = [counter |-> <<s.index + 1, Len(s.images)>>,
                               text |-> "name", name |-> s.images[s.index + 1][2]]]

\* _draw_arrows: the canvas arrows exist only in viewer mode, away from the edges
_draw_arrows(s) ==
    IF s.mode # "viewer" \/ s.images = <<>> \/ s.index < 0
    THEN [s EXCEPT !.controls.left = FALSE, !.controls.right = FALSE]
    ELSE [s EXCEPT !.controls.left = ~(s.index <= 0),
                   !.controls.right = ~(s.index >= Len(s.images) - 1)]

\* an update that enables Undo whenever there are images
_update_controls_undo_with_images(s) ==
    LET has_images == s.images # <<>>
        at_first == has_images /\ s.index <= 0
        at_last == has_images /\ s.index >= Len(s.images) - 1
        t == [s EXCEPT !.controls.prev = has_images /\ ~at_first,
                       !.controls.next = has_images /\ ~at_last,
                       !.controls.delete = has_images,
                       !.controls.undo = has_images,
                       !.controls.counter = has_images]
    IN  _draw_arrows(t)

\* _update_controls
_update_controls(s) ==
    LET has_images == s.images # <<>>
        at_first == has_images /\ s.index <= 0
        at_last == has_images /\ s.index >= Len(s.images) - 1
        t == [s EXCEPT !.controls.prev = has_images /\ ~at_first,
                       !.controls.next = has_images /\ ~at_last,
                       !.controls.delete = has_images,
                       !.controls.undo = (s.last_deleted # None),
                       !.controls.counter = has_images]
    IN  _draw_arrows(t)

\* _render_to_canvas: draws the image and the arrows
_render_to_canvas(s) ==
    IF s.mode # "viewer" \/ ~s.pil THEN s ELSE _draw_arrows(s)

\* _show_current: canvas.delete("all") removes the arrows; Image.open fails
\* for a file that is not on the disk, and the error text is drawn instead
_show_current(s) ==
    LET c == [s EXCEPT !.pil = FALSE, !.controls.left = FALSE, !.controls.right = FALSE]
    IN  IF c.index = -1 \/ c.images = <<>> THEN _draw_arrows(c)
        ELSE IF c.index + 1 \notin 1..Len(c.images) THEN [c EXCEPT !.exc = "raise"]
        ELSE IF c.images[c.index + 1] \in c.disk
             THEN _render_to_canvas([c EXCEPT !.pil = TRUE])
             ELSE _draw_arrows(c)


\* ------------------------------------------------------------------------
\* Thumbnails and gallery
\* ------------------------------------------------------------------------
\* batch_size in _load_next_batch
batch_size == 5

\* columns of the grid for a canvas of width cw (Python's floor division)
Cols(cw, size) ==
    LET num == Max2(1, cw) - 16
        den == (size + 2 + 2) + 16
        q == IF num >= 0 THEN num \div den ELSE -(((-num) + den - 1) \div den)
    IN  Max2(1, q)

\* _get_thumbnail: a miss stores the bitmap (or the placeholder) under (path, size)
_get_thumbnail(s, path) == [s EXCEPT !.thumb_cache = @ \cup {<<path, s.thumb_size>>}]

\* _purge_thumb_cache_for_path
\* a purge that forgets the sizes other than the current one
_purge_current_size_only(s, path) ==
    [s EXCEPT !.thumb_cache = @ \ {<<path, s.thumb_size>>}]

_purge_thumb_cache_for_path(s, path) ==
    [s EXCEPT !.thumb_cache = {k \in @ : k[1] # path}]

\* _create_tile: the tile <<index, path, highlighted>> captures the index and
\* path it was created for; a new tile has the border colour (not highlighted)
_create_tile(s, i, path) ==
    [_get_thumbnail(s, path) EXCEPT !.tiles[i + 1] = <<i, path, FALSE>>]

\* _update_selection_highlight: every realized tile gets the selection colour
\* iff its position is the Selection Index
_update_selection_highlight(s) ==
    [s EXCEPT !.tiles = [k \in 1..Len(@) |->
                            IF @[k] = None THEN None
                            ELSE <<@[k][1], @[k][2], (k - 1 = s.index)>>]]

\* the loop body of _load_next_batch for i in range(i, end)
RECURSIVE LoadTiles(_, _, _)
LoadTiles(s, i, end) ==
    IF i >= end THEN s
    ELSE IF i + 1 > Len(s.images) THEN [s EXCEPT !.exc = "raise"]
    ELSE LoadTiles(_create_tile(s, i, s.images[i + 1]), i + 1, end)

\* a batch load that schedules no follow-up check
ScheduleLoad_never(s) == s

\* after_cancel(self._gallery_load_after); self._gallery_load_after = after(50, ...)
ScheduleLoad(s) ==
    LET cancelled == IF s.load_after THEN s.queue.load - 1 ELSE s.queue.load
    IN  [s EXCEPT !.queue.load = cancelled + 1, !.load_after = TRUE]

\* _load_next_batch
_load_next_batch(s) ==
    IF s.loading THEN s
    ELSE IF s.loaded_count >= Len(s.tiles) THEN s
    ELSE LET start == s.loaded_count
             end == Min2(Len(s.tiles), start + batch_size)
             t == LoadTiles([s EXCEPT !.loading = TRUE], start, end)
         IN  IF t.exc # "none" THEN t
             ELSE ScheduleLoad([_update_selection_highlight([t EXCEPT !.loaded_count = end])
                                   EXCEPT !.loading = FALSE])

\* _ensure_loaded_upto: the while loop; it cannot end when a call makes no progress
RECURSIVE _ensure_loaded_upto(_, _)
_ensure_loaded_upto(s, idx) ==
    IF ~(idx >= s.loaded_count /\ s.loaded_count < Len(s.tiles)) THEN s
    ELSE LET t == _load_next_batch(s)
         IN  IF t.exc # "none" THEN t
             ELSE IF t.loaded_count = s.loaded_count THEN [t EXCEPT !.exc = "hang"]
             ELSE _ensure_loaded_upto(t, idx)

\* _maybe_trigger_load_more; near: the view is within half a viewport of the
\* bottom of the laid-out content (and the canvas has a bounding box)
_maybe_trigger_load_more(s, near) ==
    IF s.tiles = <<>> THEN s
    ELSE IF near THEN _load_next_batch(s) ELSE s

\* _ensure_selected_visible
_ensure_selected_visible(s, near) ==
    IF s.tiles = <<>> \/ ~(0 <= s.index /\ s.index < Len(s.tiles)) THEN s
    ELSE LET t == _ensure_loaded_upto(s, s.index)
         IN  IF t.exc # "none" THEN t ELSE _maybe_trigger_load_more(t, near)

\* _rebuild_gallery
_rebuild_gallery(s, near) ==
    LET a == [s EXCEPT !.tiles = [k \in 1..Len(s.images) |-> None], !.loaded_count = 0]
        b == _load_next_batch(a)
    IN  IF b.exc # "none" THEN b
        ELSE _ensure_selected_visible(_update_selection_highlight(b), near)


\* ------------------------------------------------------------------------
\* Filesystem
\* ------------------------------------------------------------------------
\* the sort key of list_images: p.name.lower()
SortKey(path) == Lower(path[2])

\* the orders sorted() can return for a set of paths: ascending by key;
\* files with equal keys stay in the order iterdir() yields them, which the
\* operating system chooses
RECURSIVE SortedOrders(_)
SortedOrders(found) ==
    IF found = {} THEN {<<>>}
    ELSE LET least == {p \in found : \A q \in found : ~StrLess(SortKey(q), SortKey(p))}
         IN  UNION {{<<p>> \o rest : rest \in SortedOrders(found \ {p})} : p \in least}

\* list_images: the regular files of the folder with an image extension, sorted
list_images(d, dir) == SortedOrders({p \in d : p[1] = dir /\ is_image(p)})

\* the while loop of safe_move_to_deleted: first i >= 1 whose "-i" name is free
RECURSIVE FirstFreeDash(_, _, _, _)
FirstFreeDash(d, dir, name, i) ==
    IF <<dir, DashName(name, i)>> \notin d THEN <<dir, DashName(name, i)>>
    ELSE FirstFreeDash(d, dir, name, i + 1)

\* a move into .deleted that always takes the plain name
safe_move_target_overwriting(d, src, deleted_dir) == <<deleted_dir, src[2]>>

\* the destination safe_move_to_deleted moves src to
safe_move_target(d, src, deleted_dir) ==
    IF <<deleted_dir, src[2]>> \notin d THEN <<deleted_dir, src[2]>>
    ELSE FirstFreeDash(d, deleted_dir, src[2], 1)

\* a move that removes the source and never writes the destination
shutil_move_dropping(d, src, dst) == d \ {src}

\* shutil.move(src, dst) on the set of existing files
shutil_move(d, src, dst) == (d \ {src}) \cup {dst}

\* the while loop of undo_last_delete: first i >= 1 whose "-restored-i" name is free
RECURSIVE FirstFreeRestored(_, _, _, _)
FirstFreeRestored(d, dir, name, i) ==
    IF <<dir, RestoredName(name, i)>> \notin d THEN <<dir, RestoredName(name, i)>>
    ELSE FirstFreeRestored(d, dir, name, i + 1)

\* a restore that always takes the original name
restore_dest_overwriting(d, original_parent, original_name) ==
    <<original_parent, original_name>>

\* the restore destination computed by undo_last_delete
restore_dest(d, original_parent, original_name) ==
    IF <<original_parent, original_name>> \notin d THEN <<original_parent, original_name>>
    ELSE FirstFreeRestored(d, original_parent, original_name, 1)

\* a removal that pops the last entry whatever the position asked for
ListDel_last(sq, i) == SubSeq(sq, 1, Len(sq) - 1)

\* list operations of Python on 0-based positions
ListDel(sq, i) == [k \in 1..(Len(sq) - 1) |-> IF k <= i THEN sq[k] ELSE sq[k + 1]]

ListInsert(sq, i, x) ==
    [k \in 1..(Len(sq) + 1) |-> IF k <= i THEN sq[k] ELSE IF k = i + 1 THEN x ELSE sq[k - 1]]

\* ------------------------------------------------------------------------
\* Handlers
\* ------------------------------------------------------------------------
\* a delete that leaves the Selection Index where it was
DeleteCommit_unclamped(s, cur, moved_to, near) ==
    LET a == [s EXCEPT !.images = ListDel(@, s.index)]
        b == _purge_thumb_cache_for_path(a, cur)
        c == [b EXCEPT !.last_deleted = <<cur[1], moved_to, s.index, cur[2]>>]
        e == _set_status(c, "Moved to")
        f == IF e.exc # "none" THEN e
             ELSE IF e.mode = "viewer" THEN _show_current(e) ELSE _rebuild_gallery(e, near)
    IN  IF f.exc = "none" THEN _update_controls(f) ELSE f

\* the part of delete_current that follows a successful move
DeleteCommit(s, cur, moved_to, near) ==
    LET a == [s EXCEPT !.images = ListDel(@, s.index)]
        b == _purge_thumb_cache_for_path(a, cur)
        c == [b EXCEPT !.last_deleted = <<cur[1], moved_to, s.index, cur[2]>>]
        d == [c EXCEPT !.index = IF c.images # <<>> THEN Min2(c.index, Len(c.images) - 1) ELSE -1]
        e == _set_status(d, "Moved to")
        f == IF e.exc # "none" THEN e
             ELSE IF e.mode = "viewer" THEN _show_current(e) ELSE _rebuild_gallery(e, near)
    IN  IF f.exc = "none" THEN _update_controls(f) ELSE f

\* a delete that takes the entry out of the Collection before it moves the file
delete_current_removing_first(s, fault, near) ==
    IF s.images = <<>> THEN [s EXCEPT !.out = "noop"]
    ELSE IF s.index + 1 \notin 1..Len(s.images) THEN [s EXCEPT !.exc = "raise"]
    ELSE LET cur == s.images[s.index + 1]
             target_dir == DeletedDirOf(cur[1])
             moved_to == safe_move_target(s.disk, cur, target_dir)
             t == _purge_thumb_cache_for_path([s EXCEPT !.images = ListDel(@, s.index)], cur)
             u == [t EXCEPT !.index = IF t.images # <<>>
                                      THEN Min2(t.index, Len(t.images) - 1) ELSE -1]
         IN  IF fault = "mkdir" /\ target_dir \notin s.dirs
             THEN [u EXCEPT !.out = "failed"]
             ELSE IF fault = "move" \/ cur \notin s.disk
             THEN [u EXCEPT !.dirs = @ \cup {target_dir}, !.out = "failed"]
             ELSE LET m == [s EXCEPT !.dirs = @ \cup {target_dir},
                                     !.disk = shutil_move(@, cur, moved_to)]
                      r == DeleteCommit(m, cur, moved_to, near)
                  IN  IF r.exc = "raise" THEN [r EXCEPT !.exc = "none", !.out = "error"]
                      ELSE [r EXCEPT !.out = "ok"]

\* delete_current; fault: where the filesystem refuses ("mkdir", "move") or "none"
delete_current(s, fault, near) ==
    IF s.images = <<>> THEN [s EXCEPT !.out = "noop"]
    ELSE IF s.index + 1 \notin 1..Len(s.images) THEN [s EXCEPT !.exc = "raise"]
    ELSE LET cur == s.images[s.index + 1]
             target_dir == DeletedDirOf(cur[1])
             moved_to == safe_move_target(s.disk, cur, target_dir)
         IN  IF fault = "mkdir" /\ target_dir \notin s.dirs
             THEN [s EXCEPT !.out = "failed"]
             ELSE IF fault = "move" \/ cur \notin s.disk
             THEN [s EXCEPT !.dirs = @ \cup {target_dir}, !.out = "failed"]
             ELSE LET m == [s EXCEPT !.dirs = @ \cup {target_dir},
                                     !.disk = shutil_move(@, cur, moved_to)]
                      r == DeleteCommit(m, cur, moved_to, near)
                  IN  IF r.exc = "raise" THEN [r EXCEPT !.exc = "none", !.out = "error"]
                      ELSE [r EXCEPT !.out = "ok"]

\* an undo that puts the restored path where the selection currently is
UndoCommit_at_selection(s, dest) ==
    LET insert_at == Max2(0, Min2(s.index, Len(s.images)))
        a == [s EXCEPT !.images = ListInsert(@, insert_at, dest), !.index = insert_at,
                       !.last_deleted = None]
        b == _set_status(a, "Restored")
        c == IF b.exc # "none" THEN b ELSE _show_current(b)
    IN  IF c.exc = "none" THEN _update_controls(c) ELSE c

\* an undo that puts the restored path at the end of the Collection
UndoCommit_appending(s, dest) ==
    LET insert_at == Len(s.images)
        a == [s EXCEPT !.images = ListInsert(@, insert_at, dest), !.index = insert_at,
                       !.last_deleted = None]
        b == _set_status(a, "Restored")
        c == IF b.exc # "none" THEN b ELSE _show_current(b)
    IN  IF c.exc = "none" THEN _update_controls(c) ELSE c

\* an undo that keeps its record after it has restored the file
UndoCommit_keeping_record(s, dest) ==
    LET insert_at == Max2(0, Min2(s.last_deleted[3], Len(s.images)))
        a == [s EXCEPT !.images = ListInsert(@, insert_at, dest), !.index = insert_at]
        b == _set_status(a, "Restored")
        c == IF b.exc # "none" THEN b ELSE _show_current(b)
    IN  IF c.exc = "none" THEN _update_controls(c) ELSE c

\* the part of undo_last_delete that follows a successful move
UndoCommit(s, dest) ==
    LET insert_at == Max2(0, Min2(s.last_deleted[3], Len(s.images)))
        a == [s EXCEPT !.images = ListInsert(@, insert_at, dest), !.index = insert_at,
                       !.last_deleted = None]
        b == _set_status(a, "Restored")
        c == IF b.exc # "none" THEN b ELSE _show_current(b)
    IN  IF c.exc = "none" THEN _update_controls(c) ELSE c

\* an undo that drops its record before it knows whether the move succeeded
undo_last_delete_clearing_first(s, fault) ==
    IF s.last_deleted = None THEN [s EXCEPT !.out = "noop"]
    ELSE LET rec == s.last_deleted
             dest == restore_dest(s.disk, rec[1], rec[4])
         IN  IF fault = "move" \/ rec[2] \notin s.disk
             THEN [s EXCEPT !.last_deleted = None, !.out = "failed"]
             ELSE LET m == [s EXCEPT !.disk = shutil_move(@, rec[2], dest)]
                      r == UndoCommit(m, dest)
                  IN  IF r.exc = "raise" THEN [r EXCEPT !.exc = "none", !.out = "error"]
                      ELSE [r EXCEPT !.out = "ok"]

\* undo_last_delete; the record is (original_parent, moved_to, original_index,
\* original_name); fault: "move" when the filesystem refuses the move, or "none"
undo_last_delete(s, fault) ==
    IF s.last_deleted = None THEN [s EXCEPT !.out = "noop"]
    ELSE LET rec == s.last_deleted
             dest == restore_dest(s.disk, rec[1], rec[4])
         IN  IF fault = "move" \/ rec[2] \notin s.disk
             THEN [s EXCEPT !.out = "failed"]
             ELSE LET m == [s EXCEPT !.disk = shutil_move(@, rec[2], dest)]
                      r == UndoCommit(m, dest)
                  IN  IF r.exc = "raise" THEN [r EXCEPT !.exc = "none", !.out = "error"]
                      ELSE [r EXCEPT !.out = "ok"]


\* a prev that wraps from the first image to the last
prev_image_wrapping(s, near) ==
    IF s.images = <<>> THEN [s EXCEPT !.out = "noop"]
    ELSE LET a == _set_status([s EXCEPT !.index = (@ - 1) % Len(s.images)], "")
             b == IF a.exc # "none" THEN a
                  ELSE IF a.mode = "viewer" THEN _show_current(a)
                  ELSE _ensure_selected_visible(_update_selection_highlight(a), near)
         IN  IF b.exc = "none" THEN [_update_controls(b) EXCEPT !.out = "ok"] ELSE b

\* prev_image
prev_image(s, near) ==
    IF s.images = <<>> \/ s.index <= 0 THEN [s EXCEPT !.out = "noop"]
    ELSE LET a == _set_status([s EXCEPT !.index = @ - 1], "")
             b == IF a.exc # "none" THEN a
                  ELSE IF a.mode = "viewer" THEN _show_current(a)
                  ELSE _ensure_selected_visible(_update_selection_highlight(a), near)
         IN  IF b.exc = "none" THEN [_update_controls(b) EXCEPT !.out = "ok"] ELSE b

\* next_image
next_image(s, near) ==
    IF s.images = <<>> \/ s.index >= Len(s.images) - 1 THEN [s EXCEPT !.out = "noop"]
    ELSE LET a == _set_status([s EXCEPT !.index = @ + 1], "")
             b == IF a.exc # "none" THEN a
                  ELSE IF a.mode = "viewer" THEN _show_current(a)
                  ELSE _ensure_selected_visible(_update_selection_highlight(a), near)
         IN  IF b.exc = "none" THEN [_update_controls(b) EXCEPT !.out = "ok"] ELSE b

\* _move_selection_up / _move_selection_down; cw is the width of the gallery canvas
_move_selection_up(s, cw, near) ==
    IF s.mode # "gallery" \/ s.images = <<>> THEN [s EXCEPT !.out = "noop"]
    ELSE LET a == _set_status([s EXCEPT !.index = Max2(0, @ - Cols(cw, s.thumb_size))], "")
             b == IF a.exc # "none" THEN a
                  ELSE _ensure_selected_visible(_update_selection_highlight(a), near)
         IN  IF b.exc = "none" THEN [_update_controls(b) EXCEPT !.out = "ok"] ELSE b

_move_selection_down(s, cw, near) ==
    IF s.mode # "gallery" \/ s.images = <<>> THEN [s EXCEPT !.out = "noop"]
    ELSE LET a == _set_status([s EXCEPT !.index =
                                  Min2(Len(s.images) - 1, @ + Cols(cw, s.thumb_size))], "")
             b == IF a.exc # "none" THEN a
                  ELSE _ensure_selected_visible(_update_selection_highlight(a), near)
         IN  IF b.exc = "none" THEN [_update_controls(b) EXCEPT !.out = "ok"] ELSE b

\* str.strip(): leading and trailing blanks removed
RECURSIVE LStrip(_)
LStrip(t) == IF t # <<>> /\ t[1] = 32 THEN LStrip(Tail(t)) ELSE t

RECURSIVE RStrip(_)
RStrip(t) == IF t # <<>> /\ t[Len(t)] = 32 THEN RStrip(SubSeq(t, 1, Len(t) - 1)) ELSE t

\* str.isdigit() and int() on a string of decimal digits
IsDigit(t) == t # <<>> /\ \A k \in 1..Len(t) : t[k] \in 48..57

RECURSIVE ParseInt(_)
ParseInt(t) == IF t = <<>> THEN 0 ELSE 10 * ParseInt(SubSeq(t, 1, Len(t) - 1)) + (t[Len(t)] - 48)

\* _ask_image_number: what the dialog returns when the user types text and
\* presses OK; on a rejected text on_ok rings the bell and leaves the dialog
\* open, and the user then cancels (cancel: the user cancels straight away)
_ask_image_number(total, text, cancel) ==
    LET t == RStrip(LStrip(text))
    IN  IF cancel THEN None
        ELSE IF ~IsDigit(t) THEN None
        ELSE IF ParseInt(t) < 1 \/ ParseInt(t) > total THEN None
        ELSE <<ParseInt(t)>>

\* a jump that takes the number typed as a 0-based position
_on_counter_click_zero_based(s, text, cancel, near) ==
    IF s.images = <<>> THEN [s EXCEPT !.out = "noop"]
    ELSE LET n == Len(s.images)
             val == _ask_image_number(n, text, cancel)
         IN  IF val = None THEN [s EXCEPT !.out = IF cancel THEN "cancelled" ELSE "rejected"]
             ELSE LET target == val[1]
                  IN  IF ~(0 <= target /\ target < n /\ target # s.index)
                      THEN [s EXCEPT !.out = "same"]
                      ELSE LET a == _set_status([s EXCEPT !.index = target], "")
                               b == IF a.exc # "none" THEN a ELSE _show_current(a)
                               c == IF b.exc # "none" THEN b ELSE _update_controls(b)
                               d == IF c.exc # "none" \/ c.mode # "gallery" THEN c
                                    ELSE _ensure_selected_visible(
                                             _update_selection_highlight(c), near)
                           IN  [d EXCEPT !.out = "ok"]

\* _on_counter_click
_on_counter_click(s, text, cancel, near) ==
    IF s.images = <<>> THEN [s EXCEPT !.out = "noop"]
    ELSE LET n == Len(s.images)
             val == _ask_image_number(n, text, cancel)
         IN  IF val = None THEN [s EXCEPT !.out = IF cancel THEN "cancelled" ELSE "rejected"]
             ELSE LET target == val[1] - 1
                  IN  IF ~(0 <= target /\ target < n /\ target # s.index)
                      THEN [s EXCEPT !.out = "same"]
                      ELSE LET a == _set_status([s EXCEPT !.index = target], "")
                               b == IF a.exc # "none" THEN a ELSE _show_current(a)
                               c == IF b.exc # "none" THEN b ELSE _update_controls(b)
                               d == IF c.exc # "none" \/ c.mode # "gallery" THEN c
                                    ELSE _ensure_selected_visible(
                                             _update_selection_highlight(c), near)
                           IN  [d EXCEPT !.out = "ok"]

\* _leave_gallery / _enter_gallery / toggle_gallery
_leave_gallery(s) ==
    LET a == _show_current([s EXCEPT !.mode = "viewer"])
        b == IF a.exc # "none" THEN a ELSE _set_status(a, "")
    IN  IF b.exc = "none" THEN _update_controls(b) ELSE b

\* an entry into the gallery that starts from the first image
_enter_gallery_from_top(s, near) ==
    LET a == _rebuild_gallery([s EXCEPT !.mode = "gallery",
                                        !.index = IF s.images # <<>> THEN 0 ELSE -1], near)
        b == IF a.exc # "none" THEN a ELSE _set_status(a, "")
    IN  IF b.exc = "none" THEN _update_controls(b) ELSE b

_enter_gallery(s, near) ==
    LET a == _rebuild_gallery([s EXCEPT !.mode = "gallery"], near)
        b == IF a.exc # "none" THEN a ELSE _set_status(a, "")
    IN  IF b.exc = "none" THEN _update_controls(b) ELSE b

toggle_gallery(s, near) ==
    IF s.mode = "viewer" THEN _enter_gallery(s, near) ELSE _leave_gallery(s)

\* _on_enter_key
_on_enter_key(s, near) ==
    IF s.mode = "gallery"
    THEN IF s.images # <<>> /\ 0 <= s.index /\ s.index < Len(s.images)
         THEN _leave_gallery(s) ELSE [s EXCEPT !.out = "noop"]
    ELSE next_image(s, near)

\* on_click of a tile created for index i
on_click(s, i, near) ==
    LET a == _update_selection_highlight([s EXCEPT !.index = i])
        b == _set_status(a, "")
    IN  IF b.exc # "none" THEN b ELSE _ensure_selected_visible(b, near)

\* on_double of a tile created for index i
on_double(s, i) == _leave_gallery([s EXCEPT !.index = i])


\* choose_folder; path: <<>> when the dialog is cancelled, else the folder;
\* listing: the list list_images returns; iterdir() raises for a folder
\* that cannot be read, before anything is assigned
Unreadable == { << <<85>> >> }

\* a folder choice that keeps the UndoRecord of the previous folder
choose_folder_keeping_record(s, path, listing, near) ==
    IF path = <<>> THEN [s EXCEPT !.out = "noop"]
    ELSE IF path \in Unreadable THEN [s EXCEPT !.exc = "raise"]
    ELSE LET a == [s EXCEPT !.folder = path, !.images = listing,
                            !.index = IF listing # <<>> THEN 0 ELSE -1]
             b == _set_status(a, "")
             c == IF b.exc # "none" THEN b ELSE _show_current(b)
             d == IF c.exc # "none" THEN c ELSE _update_controls(c)
             e == IF d.exc # "none" THEN d ELSE _rebuild_gallery(d, near)
         IN  [e EXCEPT !.out = "ok"]

choose_folder(s, path, listing, near) ==
    IF path = <<>> THEN [s EXCEPT !.out = "noop"]
    ELSE IF path \in Unreadable THEN [s EXCEPT !.exc = "raise"]
    ELSE LET a == [s EXCEPT !.folder = path, !.images = listing,
                            !.index = IF listing # <<>> THEN 0 ELSE -1,
                            !.last_deleted = None]
             b == _set_status(a, "")
             c == IF b.exc # "none" THEN b ELSE _show_current(b)
             d == IF c.exc # "none" THEN c ELSE _update_controls(c)
             e == IF d.exc # "none" THEN d ELSE _rebuild_gallery(d, near)
         IN  [e EXCEPT !.out = "ok"]

\* round(value / 16.0): Python rounds a half to the even neighbour
RoundDiv16(value) ==
    LET q == value \div 16
        r == value % 16
    IN  IF r < 8 THEN q ELSE IF r > 8 THEN q + 1 ELSE IF q % 2 = 0 THEN q ELSE q + 1

\* _on_thumb_size_change
_on_thumb_size_change(s, value, near) ==
    LET v == Max2(96, Min2(384, RoundDiv16(value) * 16))
    IN  IF v = s.thumb_size THEN [s EXCEPT !.out = "same"]
        ELSE LET a == [s EXCEPT !.thumb_size = v, !.out = "ok"]
             IN  IF a.mode = "gallery" THEN _rebuild_gallery(a, near) ELSE a

\* a scheduling that forgets to cancel the callback still pending
ScheduleResize_without_cancel(s) ==
    [s EXCEPT !.queue.resize = @ + 1, !.resize_after = TRUE]

\* after_cancel(self._resize_after_id); self._resize_after_id = after(80, ...)
ScheduleResize(s) ==
    LET cancelled == IF s.resize_after THEN s.queue.resize - 1 ELSE s.queue.resize
    IN  [s EXCEPT !.queue.resize = cancelled + 1, !.resize_after = TRUE]

\* _on_canvas_resize
_on_canvas_resize(s) ==
    IF s.mode # "viewer" \/ ~s.pil THEN [s EXCEPT !.out = "noop"]
    ELSE [ScheduleResize(s) EXCEPT !.out = "ok"]


\* _on_mouse_wheel, _on_gallery_frame_configure, _on_gallery_canvas_configure:
\* scrolling or re-layout of the visible gallery, then _maybe_trigger_load_more
_on_gallery_event(s, near) ==
    IF s.mode # "gallery" THEN [s EXCEPT !.out = "noop"]
    ELSE [_maybe_trigger_load_more(s, near) EXCEPT !.out = "ok"]

\* ------------------------------------------------------------------------
\* The disk the application is started on
\* ------------------------------------------------------------------------
FolderF == << <<70>> >>

\* a second folder, which holds no files
FolderG == << <<71>> >>

\* "A.jpg", "b.PNG", "c.jpeg", "a.JPG", then "e.jpg", "f.jpg", ...
FileName(k) ==
    CASE k = 1 -> <<65, 46, 106, 112, 103>>
      [] k = 2 -> <<98, 46, 80, 78, 71>>
      [] k = 3 -> <<99, 46, 106, 112, 101, 103>>
      [] k = 4 -> <<97, 46, 74, 80, 71>>
      [] OTHER -> <<96 + k, 46, 106, 112, 103>>

\* "n.txt", a file that is not an image
NotesName == <<110, 46, 116, 120, 116>>

\* files an earlier session may have left in F/.deleted: "A.jpg", "A-1.jpg"
PreDeleted ==
    {<<DeletedDirOf(FolderF), FileName(1)>>, <<DeletedDirOf(FolderF), DashName(FileName(1), 1)>>}

\* files another program may create while the application runs
ExternalPaths == {<<FolderF, FileName(1)>>, <<FolderF, RestoredName(FileName(1), 1)>>}

\* folders the directory dialog can return (<<>>: cancelled)
FolderChoices == {<<>>, FolderF, FolderG} \cup Unreadable

\* texts typed into the "Go to image" dialog: "0".."n+1", "abc", "-1", " 2 "
JumpTexts(n) == {Digits(v) : v \in 0..(n + 1)} \cup {<<97, 98, 99>>, <<45, 49>>, <<32, 50, 32>>}

\* positions of the thumbnail scale
ScaleValues == {104, 200}

\* widths of the gallery canvas
CanvasWidths == {1, 500}

\* The sessions explored are of five kinds, to keep the product of what
\* they exercise out of the state space.  "plain": a folder of up to MaxFiles
\* images.  "leftovers": F/.deleted holds files of an earlier session.
\* "external": other programs create files while the application runs.
\* "view": the user moves the thumbnail scale and resizes the window.
\* "faulty": the filesystem may refuse to create a directory or move a file.
Sessions == {"plain", "leftovers", "external", "view", "faulty"}

\* the images of a "many" session: one full batch of tiles and two more
ManyFiles == batch_size + 2

\* the files of folder F (besides "n.txt") when a session of a kind starts;
\* "many": "e.jpg", "f.jpg", ... (ManyFiles images, more than one batch of tiles)
StartFiles(kind) ==
    IF kind = "many" THEN {{<<FolderF, FileName(4 + k)>> : k \in 1..ManyFiles}}
    ELSE IF kind = "plain" THEN {{<<FolderF, FileName(k)>> : k \in 1..n} : n \in 0..MaxFiles}
    ELSE IF kind = "external" THEN {{<<FolderF, FileName(1)>>}}
    ELSE {{<<FolderF, FileName(1)>>, <<FolderF, FileName(2)>>}}

\* the files of F/.deleted when a session of a kind starts
StartDeleted(kind) == IF kind = "leftovers" THEN (SUBSET PreDeleted) \ {{}} ELSE {{}}

\* what hist holds while no delete is remembered
NoHist ==
    [images |-> <<>>, index |-> -1, disk |-> {}, thumb_cache |-> {}, cur |-> <<>>, first |-> <<>>]

\* the application after construction, in a session of one of the kinds
InitOf(kinds) ==
    /\ folder = None
    /\ images = <<>>
    /\ index = -1
    /\ last_deleted = None
    /\ mode = "viewer"
    /\ thumb_size = 200
    /\ thumb_cache = {}
    /\ tiles = <<>>
    /\ loaded_count = 0
    /\ loading = FALSE
    /\ load_after = FALSE
    /\ resize_after = FALSE
    /\ pil = FALSE
    /\ controls = [prev |-> FALSE, next |-> FALSE, delete |-> FALSE, undo |-> FALSE,
                   counter |-> FALSE, left |-> FALSE, right |-> FALSE]
    /\ status = [counter |-> None, text |-> "Pick a folder to begin", name |-> None]
    /\ session \in kinds
    /\ \E files \in StartFiles(session) : \E pre \in StartDeleted(session) :
          /\ disk = files \cup {<<FolderF, NotesName>>} \cup pre
          /\ dirs = IF pre = {} THEN {} ELSE {DeletedDirOf(FolderF)}
    /\ queue = [load |-> 0, resize |-> 0]
    /\ created = {}
    /\ hung = FALSE
    /\ dialog = "none"
    /\ run = <<>>
    /\ hist = NoHist

Init == InitOf(Sessions)

\* ------------------------------------------------------------------------
\* Events
\* ------------------------------------------------------------------------
Outcome(r) == IF r.exc = "none" THEN r.out ELSE r.exc

\* messagebox.showerror in the except clauses of delete_current and
\* undo_last_delete: the box stays open until the user dismisses it
DialogOf(op, r) ==
    IF Outcome(r) \in {"failed", "error"}
    THEN (IF op = "delete" THEN "move" ELSE IF op = "undo" THEN "restore" ELSE "none")
    ELSE "none"

\* history of the events just performed, as far as they form a prefix of
\*   delete, undo   or   delete, delete, undo, undo
\*     (each successful, the last undo finding no record);
\*   delete, X   for X one of: a prev that found no neighbour, a jump whose
\*     number was rejected, a toggle of the view mode, a folder choice;
\*   choose_folder   (a folder was chosen and listed);
\*   resize, resize, render   (two debounced resize events, then the timer);
\* any other event starts afresh
RunAfter(op, r) ==
    LET D == "delete"
        U == "undo"
        R == "resize"
    IN  IF op = D /\ Outcome(r) = "ok"
        THEN (IF run \in {<<D>>, <<D, D>>} THEN <<D, D>> ELSE <<D>>)
        ELSE IF op = U /\ Outcome(r) = "ok"
        THEN (IF run = <<D>> THEN <<D, U>> ELSE IF run = <<D, D>> THEN <<D, D, U>> ELSE <<>>)
        ELSE IF op = U /\ Outcome(r) = "noop"
        THEN (IF run = <<D, D, U>> THEN <<D, D, U, U>> ELSE <<>>)
        ELSE IF op = "prev" /\ Outcome(r) = "noop"
        THEN (IF run = <<D>> THEN <<D, op>> ELSE <<>>)
        ELSE IF op = "jump" /\ Outcome(r) = "rejected"
        THEN (IF run = <<D>> THEN <<D, op>> ELSE <<>>)
        ELSE IF op = "toggle" /\ r.exc = "none"
        THEN (IF run = <<D>> THEN <<D, op>> ELSE <<>>)
        ELSE IF op = "choose_folder" /\ Outcome(r) = "ok"
        THEN (IF run = <<D>> THEN <<D, op>> ELSE <<op>>)
        ELSE IF op = R /\ Outcome(r) = "ok"
        THEN (IF run \in {<<R>>, <<R, R>>} THEN <<R, R>> ELSE <<R>>)
        ELSE IF op = "resize_timer"
        THEN (IF run = <<R, R>> THEN <<R, R, "render">> ELSE <<>>)
        ELSE <<>>

\* history kept along a run of deletes and undos: the Collection, Selection
\* Index, files and cache as they were before the last delete of run, the
\* path cur it deleted, and (original path, moved-to path) of the delete
\* before it, if run has two
HistAfter(op, r) ==
    LET nxt == RunAfter(op, r)
    IN  IF op = "delete" /\ Outcome(r) = "ok"
        THEN [images |-> images, index |-> index, disk |-> disk, thumb_cache |-> thumb_cache,
              cur |-> images[index + 1],
              first |-> IF nxt = <<"delete", "delete">>
                        THEN <<<<last_deleted[1], last_deleted[4]>>, last_deleted[2]>>
                        ELSE <<>>]
        ELSE IF nxt = <<>> \/ nxt[Len(nxt)] \notin {"delete", "undo"} THEN NoHist
        ELSE hist

\* history kept in a session on a large folder: whether the event just
\* performed disturbed the loading of tiles, by rebuilding the tile sequence
\* or by a load-more check that loaded nothing, or was a load-more check
\* that loaded a batch
LoadRunAfter(op, r) ==
    IF \/ op = "choose_folder" /\ Outcome(r) = "ok"
       \/ op \in {"toggle", "enter"} /\ mode = "viewer" /\ r.mode = "gallery"
       \/ op = "delete" /\ mode = "gallery" /\ r.last_deleted # last_deleted
       \/ op = "thumb_size"
       \/ op = "load_timer" /\ r.loaded_count = loaded_count
    THEN <<"disturbed">>
    ELSE IF op = "load_timer" THEN <<"loaded">>
    ELSE <<>>

\* the handler has run to its end (or to an uncaught exception, which Tk
\* reports and survives, or into a loop that never ends); the timer callbacks
\* also run inside the event loop of an open error box
Commit(r, op) ==
    /\ folder' = r.folder
    /\ images' = r.images
    /\ index' = r.index
    /\ last_deleted' = r.last_deleted
    /\ mode' = r.mode
    /\ thumb_size' = r.thumb_size
    /\ thumb_cache' = r.thumb_cache
    /\ tiles' = r.tiles
    /\ loaded_count' = r.loaded_count
    /\ loading' = r.loading
    /\ load_after' = r.load_after
    /\ resize_after' = r.resize_after
    /\ pil' = r.pil
    /\ controls' = r.controls
    /\ status' = r.status
    /\ disk' = r.disk
    /\ dirs' = r.dirs
    /\ queue' = r.queue
    /\ hung' = (r.exc = "hang")
    /\ dialog' = IF op \in {"load_timer", "resize_timer"} THEN dialog ELSE DialogOf(op, r)
    /\ run' = IF session \in Sessions THEN RunAfter(op, r) ELSE LoadRunAfter(op, r)
    /\ hist' = IF session \in Sessions THEN HistAfter(op, r) ELSE NoHist
    /\ UNCHANGED <<created, session>>


\* ------------------------------------------------------------------------
\* Actions: one per user action, timer callback or outside event
\* ------------------------------------------------------------------------
\* the Open button with the directory dialog returning path
ChooseFolderAt(path) ==
    /\ ~hung /\ dialog = "none"
    /\ \E listing \in (IF path \in {FolderF, FolderG} THEN list_images(disk, path) ELSE {<<>>}) :
          \E r \in {choose_folder(Self, path, listing, near) : near \in BOOLEAN} :
             Commit(r, "choose_folder")

ChooseFolder ==
    /\ ~hung /\ dialog = "none"
    /\ \E path \in FolderChoices :
          \E listing \in (IF path \in {FolderF, FolderG} THEN list_images(disk, path) ELSE {<<>>}) :
             \E r \in {choose_folder(Self, path, listing, near) : near \in BOOLEAN} :
                Commit(r, "choose_folder")

Prev ==
    /\ ~hung /\ dialog = "none"
    /\ \E r \in {prev_image(Self, near) : near \in BOOLEAN} : Commit(r, "prev")

Next_ ==
    /\ ~hung /\ dialog = "none"
    /\ \E r \in {next_image(Self, near) : near \in BOOLEAN} : Commit(r, "next")

Up ==
    /\ ~hung /\ dialog = "none"
    /\ \E r \in {_move_selection_up(Self, cw, near) : cw \in CanvasWidths, near \in BOOLEAN} :
          Commit(r, "up")

Down ==
    /\ ~hung /\ dialog = "none"
    /\ \E r \in {_move_selection_down(Self, cw, near) : cw \in CanvasWidths, near \in BOOLEAN} :
          Commit(r, "down")

\* a click on the counter label, which is bound only while there are images
Jump ==
    /\ ~hung /\ dialog = "none"
    /\ controls.counter
    /\ \E r \in {_on_counter_click(Self, text, cancel, near) :
                    text \in JumpTexts(Len(images)), cancel \in BOOLEAN, near \in BOOLEAN} :
          Commit(r, "jump")

\* the same click with the text typed and the button pressed given
JumpAt(text, cancel) ==
    /\ ~hung /\ dialog = "none"
    /\ controls.counter
    /\ \E r \in {_on_counter_click(Self, text, cancel, near) : near \in BOOLEAN} :
          Commit(r, "jump")

\* a click on a realized tile of the visible gallery
TileClick ==
    /\ ~hung /\ dialog = "none"
    /\ mode = "gallery"
    /\ \E k \in 1..Len(tiles) :
          /\ tiles[k] # None
          /\ \E r \in {[on_click(Self, tiles[k][1], near) EXCEPT !.out = "ok"] : near \in BOOLEAN} :
                Commit(r, "click")

\* on_click and then on_double: Tk delivers <Button-1> before <Double-Button-1>
DoubleClick(s, i, near) ==
    LET c == on_click(s, i, near)
    IN  IF c.exc = "hang" THEN c ELSE on_double([c EXCEPT !.exc = "none"], i)

\* a double click on a realized tile of the visible gallery
TileDouble ==
    /\ ~hung /\ dialog = "none"
    /\ mode = "gallery"
    /\ \E k \in 1..Len(tiles) :
          /\ tiles[k] # None
          /\ \E r \in {[DoubleClick(Self, tiles[k][1], near) EXCEPT !.out = "ok"] :
                          near \in BOOLEAN} :
                Commit(r, "double")

\* the same double click on the tile at position k (1-based)
TileDoubleAt(k) ==
    /\ ~hung /\ dialog = "none"
    /\ mode = "gallery"
    /\ tiles[k] # None
    /\ \E r \in {[DoubleClick(Self, tiles[k][1], near) EXCEPT !.out = "ok"] : near \in BOOLEAN} :
          Commit(r, "double")

EnterKey ==
    /\ ~hung /\ dialog = "none"
    /\ \E r \in {_on_enter_key(Self, near) : near \in BOOLEAN} : Commit(r, "enter")

\* what the filesystem may refuse in this session
Faults == IF session = "faulty" THEN {"none", "mkdir", "move"} ELSE {"none"}

Delete ==
    /\ ~hung /\ dialog = "none"
    /\ \E r \in {delete_current(Self, fault, near) : fault \in Faults, near \in BOOLEAN} :
          Commit(r, "delete")

Undo ==
    /\ ~hung /\ dialog = "none"
    /\ \E r \in {undo_last_delete(Self, fault) : fault \in Faults \ {"mkdir"}} :
          Commit(r, "undo")

ToggleGallery ==
    /\ ~hung /\ dialog = "none"
    /\ \E r \in {toggle_gallery(Self, near) : near \in BOOLEAN} : Commit(r, "toggle")

ThumbSizeChange ==
    /\ ~hung /\ dialog = "none"
    /\ session = "view"
    /\ \E r \in {_on_thumb_size_change(Self, value, near) :
                    value \in ScaleValues, near \in BOOLEAN} :
          Commit(r, "thumb_size")

CanvasResize ==
    /\ ~hung /\ dialog = "none"
    /\ session = "view"
    /\ LET r == _on_canvas_resize(Self) IN Commit(r, "resize")

GalleryEvent ==
    /\ ~hung /\ dialog = "none"
    /\ \E r \in {_on_gallery_event(Self, near) : near \in BOOLEAN} :
          Commit(r, "gallery_event")

\* the after(50, self._maybe_trigger_load_more) callback fires
LoadTimerFire ==
    /\ ~hung
    /\ queue.load > 0
    /\ LET s == [Self EXCEPT !.queue.load = @ - 1,
                             !.load_after = IF queue.load = 1 THEN FALSE ELSE @]
       IN  \E r \in {[_maybe_trigger_load_more(s, near) EXCEPT !.out = "ok"] : near \in BOOLEAN} :
              Commit(r, "load_timer")

\* the after(80, self._render_to_canvas) callback fires
ResizeTimerFire ==
    /\ ~hung
    /\ queue.resize > 0
    /\ LET s == [Self EXCEPT !.queue.resize = @ - 1,
                             !.resize_after = IF queue.resize = 1 THEN FALSE ELSE @]
           r == _render_to_canvas(s)
       IN  Commit([r EXCEPT !.out = "ok"], "resize_timer")

\* the user dismisses the error box
DismissDialog ==
    /\ ~hung
    /\ dialog # "none"
    /\ dialog' = "none"
    /\ run' = <<>>
    /\ hist' = NoHist
    /\ UNCHANGED <<folder, images, index, last_deleted, mode, thumb_size, thumb_cache, tiles,
                   loaded_count, loading, load_after, resize_after, pil, controls, status,
                   disk, dirs, queue, created, hung, session>>

\* another program creates a file in the folder
ExternalCreate ==
    /\ ~hung
    /\ session = "external"
    /\ \E p \in ExternalPaths \ created :
          /\ p \notin disk
          /\ disk' = disk \cup {p}
          /\ created' = created \cup {p}
          /\ run' = <<>>
          /\ hist' = NoHist
          /\ UNCHANGED <<folder, images, index, last_deleted, mode, thumb_size, thumb_cache,
                         tiles, loaded_count, loading, load_after, resize_after, pil, controls,
                         status, dirs, queue, hung, session, dialog>>

Next ==
    \/ ChooseFolder
    \/ Prev
    \/ Next_
    \/ Up
    \/ Down
    \/ Jump
    \/ TileClick
    \/ TileDouble
    \/ EnterKey
    \/ Delete
    \/ Undo
    \/ ToggleGallery
    \/ ThumbSizeChange
    \/ CanvasResize
    \/ GalleryEvent
    \/ LoadTimerFire
    \/ ResizeTimerFire
    \/ DismissDialog
    \/ ExternalCreate

Spec == Init /\ [][Next]_vars

\* ------------------------------------------------------------------------
\* The gallery of a large folder
\* ------------------------------------------------------------------------
\* A session on a folder of ManyFiles images, whose tiles take more than one
\* batch: the folder is opened, browsed with the buttons, tile clicks and the
\* view toggle, and scrolled; one image is deleted and may be restored.
GalleryInit == InitOf({"many"})

GalleryOpen == ChooseFolderAt(FolderF)

GalleryDelete == DeletedDirOf(FolderF) \notin dirs /\ Delete

GalleryNext ==
    \/ GalleryOpen
    \/ Prev
    \/ Next_
    \/ Up
    \/ Down
    \/ Jump
    \/ TileClick
    \/ TileDouble
    \/ EnterKey
    \/ GalleryDelete
    \/ Undo
    \/ ToggleGallery
    \/ GalleryEvent
    \/ LoadTimerFire

\* Tk's event loop runs a due after() callback as soon as the handler in
\* progress returns, so a pending load-more check does fire
GallerySpec == GalleryInit /\ [][GalleryNext]_vars /\ WF_vars(LoadTimerFire)


\* ------------------------------------------------------------------------
\* Steps and candidates the properties speak about
\* ------------------------------------------------------------------------
\* a step in which delete_current moved a file: a new UndoRecord appears
DeleteOkStep == last_deleted' # None /\ last_deleted' # last_deleted

\* a step in which undo_last_delete moved a file back: the record is consumed
\* and the disk changes (a folder choice clears the record but moves nothing)
UndoOkStep == last_deleted # None /\ last_deleted' = None /\ disk' # disk

\* the k-th name tried in a directory: name, name-1, name-2, ...
DashCandidate(dir, name, k) == IF k = 0 THEN <<dir, name>> ELSE <<dir, DashName(name, k)>>

\* the k-th name tried on restore: name, name-restored-1, name-restored-2, ...
RestoredCandidate(dir, name, k) ==
    IF k = 0 THEN <<dir, name>> ELSE <<dir, RestoredName(name, k)>>

\* the entries of a sequence, as a set
Range(sq) == {sq[k] : k \in 1..Len(sq)}

\* ------------------------------------------------------------------------
\* C1
\* ------------------------------------------------------------------------
\* C1: in every reachable state the Selection Index is -1 exactly when the
\* Collection is empty, and otherwise 0 <= index <= len(Collection) - 1.
C1_IndexValid ==
    /\ (index = -1) <=> (images = <<>>)
    /\ images # <<>> => (0 <= index /\ index <= Len(images) - 1)

\* the last of several images is selected in the gallery right after a
\* delete and its undo
C1_Witness ==
    /\ run = <<"delete", "undo">>
    /\ mode = "gallery"
    /\ Len(images) >= 2
    /\ index = Len(images) - 1

\* ------------------------------------------------------------------------
\* C2
\* ------------------------------------------------------------------------
\* C2: a successful delete immediately followed by a successful undo leaves
\* the file in its original folder under its original name (the disk is as
\* before the delete), the Collection equal to the one before the delete,
\* the Selection Index where it was, and no UndoRecord.
C2_RoundTrip ==
    run \in {<<"delete", "undo">>, <<"delete", "delete", "undo">>} =>
        /\ images = hist.images
        /\ index = hist.index
        /\ disk = hist.disk
        /\ hist.cur \in disk
        /\ last_deleted = None

\* a delete and undo of an image that is not the first of its Collection
C2_Witness ==
    /\ run = <<"delete", "undo">>
    /\ Len(images) >= 2
    /\ index >= 1
    /\ images[index + 1] = hist.cur

\* ------------------------------------------------------------------------
\* C3
\* ------------------------------------------------------------------------
\* C3: after two consecutive successful deletes the first undo restores the
\* file deleted second and clears the record, and the second undo changes
\* neither the Collection, the Selection Index nor any file; the file
\* deleted first stays in .deleted and out of the Collection.
C3_SingleLevelUndo ==
    [][ /\ run' = <<"delete", "delete", "undo">> =>
              /\ last_deleted' = None
              /\ hist.cur \in disk'
              /\ hist.cur = images'[index' + 1]
              /\ last_deleted[2] \notin disk'
        /\ run' = <<"delete", "delete", "undo", "undo">> =>
              /\ UNCHANGED <<images, index, disk, last_deleted>>
              /\ hist.first[2] \in disk'
              /\ hist.first[1] \notin disk'
              /\ hist.first[1] \notin Range(images')
      ]_vars

\* two deletes and two undos have just been performed
C3_Witness ==
    /\ run = <<"delete", "delete", "undo", "undo">>
    /\ hist.first[2] \in disk
    /\ hist.cur \in Range(images)

\* ------------------------------------------------------------------------
\* C4
\* ------------------------------------------------------------------------
\* C4: when the move of a delete fails (the error box "Failed to move file"
\* opens), the Collection, the Selection Index, the UndoRecord and the
\* thumbnail cache are as before; and whenever a delete changes the
\* Collection, the file has already been moved.
C4_FailedDeleteChangesNothing ==
    [][ /\ (dialog = "none" /\ dialog' = "move") =>
              UNCHANGED <<images, index, last_deleted, thumb_cache>>
        /\ (DeleteOkStep /\ images' # images) =>
              /\ images[index + 1] \notin disk'
              /\ last_deleted'[2] \in disk'
      ]_vars

\* the error box of a failed delete is open over a state with images, an
\* UndoRecord and cached thumbnails
C4_Witness ==
    /\ dialog = "move"
    /\ images # <<>>
    /\ last_deleted # None
    /\ thumb_cache # {}

\* ------------------------------------------------------------------------
\* C5
\* ------------------------------------------------------------------------
\* C5: when the move of an undo fails (the error box "Failed to restore
\* file" opens), the UndoRecord still holds the same four fields and the
\* Collection and the Selection Index are unchanged.
C5_FailedUndoKeepsRecord ==
    [][ (dialog = "none" /\ dialog' = "restore") =>
            /\ last_deleted # None
            /\ UNCHANGED <<last_deleted, images, index>>
      ]_vars

\* the error box of a failed undo is open and the record is still there
C5_Witness ==
    /\ dialog = "restore"
    /\ last_deleted # None
    /\ last_deleted[2] \in disk

\* ------------------------------------------------------------------------
\* C6
\* ------------------------------------------------------------------------
\* C6: the move into .deleted takes the first free name among name, name-1,
\* name-2, ... (suffix before the extension), overwrites nothing, loses
\* nothing, and the path recorded is the path the file now has.
C6_FirstFreeNameInDeleted ==
    [][ DeleteOkStep =>
            LET cur == images[index + 1]
                dir == DeletedDirOf(cur[1])
                moved == last_deleted'[2]
            IN  /\ moved \notin disk
                /\ disk' = (disk \ {cur}) \cup {moved}
                /\ \E k \in 0..Cardinality(disk) :
                      /\ moved = DashCandidate(dir, cur[2], k)
                      /\ \A j \in 0..(k - 1) : DashCandidate(dir, cur[2], j) \in disk
      ]_vars

\* "A.jpg" was moved to .deleted/A-2.jpg, past A.jpg and A-1.jpg
C6_Witness ==
    /\ run = <<"delete">>
    /\ last_deleted[2] = DashCandidate(DeletedDirOf(FolderF), FileName(1), 2)
    /\ DashCandidate(DeletedDirOf(FolderF), FileName(1), 0) \in disk
    /\ DashCandidate(DeletedDirOf(FolderF), FileName(1), 1) \in disk

\* ------------------------------------------------------------------------
\* C7
\* ------------------------------------------------------------------------
\* C7: undo moves the file to the first free name among F/name,
\* F/stem-restored-1.ext, F/stem-restored-2.ext, ..., overwrites nothing, and
\* the path it inserts into the Collection is the path the file now has.
C7_RestoreDestination ==
    [][ UndoOkStep =>
            LET rec == last_deleted
                dest == images'[index' + 1]
            IN  /\ Len(images') = Len(images) + 1
                /\ dest \notin disk
                /\ disk' = (disk \ {rec[2]}) \cup {dest}
                /\ \E k \in 0..Cardinality(disk) :
                      /\ dest = RestoredCandidate(rec[1], rec[4], k)
                      /\ \A j \in 0..(k - 1) : RestoredCandidate(rec[1], rec[4], j) \in disk
      ]_vars

\* "A.jpg" came back as A-restored-2.jpg: the Collection holds only it,
\* while A.jpg and A-restored-1.jpg, created meanwhile, are on the disk
C7_Witness ==
    /\ images = << RestoredCandidate(FolderF, FileName(1), 2) >>
    /\ RestoredCandidate(FolderF, FileName(1), 0) \in disk
    /\ RestoredCandidate(FolderF, FileName(1), 1) \in disk
    /\ RestoredCandidate(FolderF, FileName(1), 2) \in disk
    /\ last_deleted = None

\* ------------------------------------------------------------------------
\* C8
\* ------------------------------------------------------------------------
\* C8: a successful delete removes exactly the entry at the Selection Index,
\* sets the index to min(old, new_len - 1) or -1, and records the original
\* folder, the moved-to path, the old index and the original file name.
C8_DeleteRemovesCurrent ==
    [][ DeleteOkStep =>
            LET cur == images[index + 1]
            IN  /\ Len(images') = Len(images) - 1
                /\ \A k \in 1..Len(images') :
                      images'[k] = IF k <= index THEN images[k] ELSE images[k + 1]
                /\ index' = IF Len(images') = 0 THEN -1
                            ELSE IF index <= Len(images') - 1 THEN index ELSE Len(images') - 1
                /\ last_deleted'[1] = cur[1]
                /\ last_deleted'[2] \in disk' \ disk
                /\ last_deleted'[3] = index
                /\ last_deleted'[4] = cur[2]
      ]_vars

\* the middle one of three images has just been deleted
C8_Witness ==
    /\ run = <<"delete">>
    /\ Len(hist.images) = 3
    /\ hist.index = 1
    /\ Len(images) = 2
    /\ index = 1

\* ------------------------------------------------------------------------
\* C9
\* ------------------------------------------------------------------------
\* C9: right after a successful delete of path p the thumbnail cache holds
\* no key with path p, whatever sizes were cached, and every entry of
\* another path is still there.
C9_CachePurged ==
    [][ DeleteOkStep =>
            LET cur == images[index + 1]
            IN  /\ \A key \in thumb_cache' : key[1] # cur
                /\ {key \in thumb_cache : key[1] # cur} \subseteq thumb_cache'
      ]_vars

\* the deleted image had thumbnails of two sizes in the cache, next to
\* thumbnails of other images
C9_Witness ==
    /\ run = <<"delete">>
    /\ Cardinality({key \in hist.thumb_cache : key[1] = hist.cur}) >= 2
    /\ {key \in hist.thumb_cache : key[1] # hist.cur} # {}
    /\ \A key \in thumb_cache : key[1] # hist.cur

\* ------------------------------------------------------------------------
\* C10
\* ------------------------------------------------------------------------
\* C10: whenever the application is in gallery mode the tile sequence has
\* one slot per Collection entry, and every realized tile at position i was
\* created for, and selects, Collection[i].
C10_TilesMatchCollection ==
    mode = "gallery" =>
        /\ Len(tiles) = Len(images)
        /\ \A k \in 1..Len(tiles) :
              tiles[k] # None => (tiles[k][1] = k - 1 /\ tiles[k][2] = images[k])

\* ------------------------------------------------------------------------
\* C11
\* ------------------------------------------------------------------------
\* the positions (1-based) of the realized tiles that carry the selection colour
Highlighted == {k \in 1..Len(tiles) : tiles[k] # None /\ tiles[k][3]}

\* C11: in gallery mode with a non-empty Collection the highlighted realized
\* tiles are exactly the tile at the Selection Index when that tile is
\* realized, and none otherwise.
C11_OnlySelectionHighlighted ==
    (mode = "gallery" /\ images # <<>>) =>
        Highlighted = IF index + 1 \in 1..Len(tiles) /\ tiles[index + 1] # None
                      THEN {index + 1} ELSE {}

\* ------------------------------------------------------------------------
\* C13
\* ------------------------------------------------------------------------
\* C13: the Prev control is enabled iff a previous neighbour exists and the
\* Next control iff a next neighbour exists.
C13_PrevNextEnabledAtNeighbours ==
    /\ controls.prev <=> (images # <<>> /\ index > 0)
    /\ controls.next <=> (images # <<>> /\ index < Len(images) - 1)

\* ------------------------------------------------------------------------
\* C16
\* ------------------------------------------------------------------------
\* C16: choosing a folder that cannot be read leaves an empty Collection,
\* Selection Index -1 and the "No images found" status.
C16_UnreadableFolderGivesEmpty ==
    [][ \A path \in Unreadable :
            ChooseFolderAt(path) =>
                /\ images' = <<>>
                /\ index' = -1
                /\ status'.text = "No images found"
      ]_vars

\* ------------------------------------------------------------------------
\* C20
\* ------------------------------------------------------------------------
\* C20: the thumbnail size, and the size of every thumbnail cache key, lies
\* in [96, 384] and is a multiple of 16.
C20_ThumbSizeSnapped ==
    \A size \in {thumb_size} \cup {key[2] : key \in thumb_cache} :
        96 <= size /\ size <= 384 /\ size % 16 = 0

\* ------------------------------------------------------------------------
\* C12
\* ------------------------------------------------------------------------
\* C12: prev and next move the Selection Index by exactly one and never
\* wrap: prev at index 0, next at the last index, and either on an empty
\* Collection, leave the index where it is; neither ever changes the
\* Collection or the UndoRecord.
C12_PrevNextStepByOne ==
    [][ /\ Prev =>
              /\ index' = IF images # <<>> /\ index > 0 THEN index - 1 ELSE index
              /\ UNCHANGED <<images, last_deleted>>
        /\ Next_ =>
              /\ index' = IF images # <<>> /\ index < Len(images) - 1 THEN index + 1 ELSE index
              /\ UNCHANGED <<images, last_deleted>>
      ]_vars

\* prev has just been pressed on the first of several images, an UndoRecord
\* being live
C12_Witness ==
    /\ run = <<"delete", "prev">>
    /\ index = 0
    /\ Len(images) >= 2
    /\ last_deleted # None

\* ------------------------------------------------------------------------
\* C14
\* ------------------------------------------------------------------------
\* the state of the application and of the files
AppVars ==
    <<folder, images, index, last_deleted, mode, thumb_size, thumb_cache, tiles, loaded_count,
      loading, load_after, resize_after, pil, controls, status, disk, dirs, queue>>

\* C14: the Undo control is enabled exactly while an UndoRecord exists, and
\* an undo invoked without a record changes nothing.
C14_UndoEnabledIffRecord ==
    /\ [](controls.undo <=> (last_deleted # None))
    /\ [][(Undo /\ last_deleted = None) => UNCHANGED AppVars]_vars

\* the record was consumed by an undo and a further undo has just been
\* invoked: the control is disabled and the restored file is where it was
C14_Witness ==
    /\ run = <<"delete", "delete", "undo", "undo">>
    /\ last_deleted = None
    /\ ~controls.undo
    /\ hist.cur \in disk
    /\ images # <<>>

\* ------------------------------------------------------------------------
\* C15
\* ------------------------------------------------------------------------
\* a step in which choose_folder listed a folder
FolderChosenStep == run' \in {<<"choose_folder">>, <<"delete", "choose_folder">>}

\* C15: choosing a folder makes the Collection that folder's listing, the
\* Selection Index 0 (or -1 for an empty listing) and clears the UndoRecord,
\* so that an undo after a delete and a folder choice restores nothing;
\* cancelling the dialog changes nothing.
C15_FolderChoiceResets ==
    [][ /\ \A path \in {FolderF, FolderG} :
              (FolderChosenStep /\ ChooseFolderAt(path)) =>
                  /\ folder' = path
                  /\ images' \in list_images(disk, path)
                  /\ index' = IF images' # <<>> THEN 0 ELSE -1
                  /\ last_deleted' = None
                  /\ ~controls'.undo
        /\ ChooseFolderAt(<<>>) => UNCHANGED AppVars
        /\ (run = <<"delete", "choose_folder">> /\ Undo) => UNCHANGED <<disk, images, index>>
      ]_vars

\* after a delete in F the empty folder G has just been chosen: no record,
\* while the deleted file still lies in F/.deleted
C15_Witness ==
    /\ run = <<"delete", "choose_folder">>
    /\ folder = FolderG
    /\ images = <<>>
    /\ index = -1
    /\ last_deleted = None
    /\ \E p \in disk : p[1] = DeletedDirOf(FolderF)

\* ------------------------------------------------------------------------
\* C17
\* ------------------------------------------------------------------------
\* texts that are not numbers: "abc", "-1"
NonNumericTexts == {<<97, 98, 99>>, <<45, 49>>}

\* C17: a jump to the number v typed as decimal digits selects index v - 1
\* when 1 <= v <= len(Collection) and leaves the Selection Index alone
\* otherwise (v = 0, v = len + 1); a text that is not a number leaves it
\* alone too; no jump changes the Collection or the UndoRecord.
C17_JumpValidates ==
    [][ /\ \A v \in 0..(Len(images) + 1) :
              JumpAt(Digits(v), FALSE) =>
                  /\ index' = IF 1 <= v /\ v <= Len(images) THEN v - 1 ELSE index
                  /\ UNCHANGED <<images, last_deleted>>
        /\ \A text \in NonNumericTexts :
              JumpAt(text, FALSE) => UNCHANGED <<index, images, last_deleted>>
      ]_vars

\* a number has just been rejected by the jump dialog, over a Collection of
\* several images and a live UndoRecord
C17_Witness ==
    /\ run = <<"delete", "jump">>
    /\ Len(images) >= 2
    /\ index \in 0..(Len(images) - 1)
    /\ last_deleted # None

\* ------------------------------------------------------------------------
\* C18
\* ------------------------------------------------------------------------
\* C18: a toggle of the view mode, by the button, by Enter or Space in the
\* gallery, or by a double click on a tile (which first selects that tile),
\* leaves the Collection and the UndoRecord unchanged, and the Selection
\* Index too (for the double click: at the tile's index).
C18_ToggleKeepsSelection ==
    [][ /\ ToggleGallery =>
              /\ mode' # mode
              /\ UNCHANGED <<images, index, last_deleted>>
        /\ (mode = "gallery" /\ EnterKey) =>
              /\ mode' = IF images # <<>> THEN "viewer" ELSE "gallery"
              /\ UNCHANGED <<images, index, last_deleted>>
        /\ \A k \in 1..Len(tiles) :
              TileDoubleAt(k) =>
                  /\ mode' = "viewer"
                  /\ index' = tiles[k][1]
                  /\ UNCHANGED <<images, last_deleted>>
      ]_vars

\* the gallery has just been entered with the second image selected and an
\* UndoRecord live
C18_Witness ==
    /\ run = <<"delete", "toggle">>
    /\ mode = "gallery"
    /\ Len(images) >= 2
    /\ index = 1
    /\ last_deleted # None

\* ------------------------------------------------------------------------
\* C19
\* ------------------------------------------------------------------------
\* C19: at most one callback of each kind (viewer re-render, load-more
\* check) is pending at any time; a burst of resize events leaves exactly
\* one re-render pending, and when it has run none is left.
C19_OnePendingCallbackPerKind ==
    /\ [](queue.load <= 1 /\ queue.resize <= 1)
    /\ [][ /\ (run' = <<"resize", "resize">>) => (queue'.resize = 1 /\ resize_after')
           /\ (run' = <<"resize", "resize", "render">>) =>
                 (queue.resize = 1 /\ queue'.resize = 0 /\ ~resize_after')
         ]_vars

\* two resize events in a row and then the one re-render: nothing is pending
C19_Witness ==
    /\ run = <<"resize", "resize", "render">>
    /\ queue.resize = 0
    /\ mode = "viewer"
    /\ pil

\* ------------------------------------------------------------------------
\* C21
\* ------------------------------------------------------------------------
\* C21: a successful undo inserts the restored entry at original_index
\* clamped to 0..len(Collection) and selects that position, whatever was
\* selected before the undo; the entries that were already in the Collection
\* keep their relative order around the inserted one.
C21_UndoInsertsAtClampedIndex ==
    [][UndoOkStep =>
        LET at == Max2(0, Min2(last_deleted[3], Len(images)))
        IN  /\ Len(images') = Len(images) + 1
            /\ index' = at
            /\ images'[at + 1] \in disk' \ disk
            /\ \A k \in 1..Len(images) : images'[IF k <= at THEN k ELSE k + 1] = images[k]
    ]_vars

\* the first image was deleted in the gallery, the selection moved to the
\* second tile, and the undo put the image back in front and selected it
C21_Witness ==
    /\ mode = "gallery"
    /\ last_deleted = None
    /\ Len(images) = 3 /\ Len(tiles) = 2
    /\ index = 0
    /\ Highlighted = {2}

\* ------------------------------------------------------------------------
\* C22
\* ------------------------------------------------------------------------
\* the tile at position k (1-based) is realized
Realized(k) == k \in 1..Len(tiles) /\ tiles[k] # None

\* a step of a handler that rebuilds the tile sequence
RebuildStep == ChooseFolder \/ Delete \/ ToggleGallery \/ EnterKey \/ ThumbSizeChange

\* C22: tiles are realized in index order and in batches of at most
\* batch_size: 0 <= loaded_count <= len(tiles); tile i is realized iff
\* i < loaded_count; a load-more check that loads a batch raises loaded_count
\* by min(batch_size, len(tiles) - loaded_count); and a realized tile becomes a
\* placeholder again only in a step that rebuilds the sequence.
C22_TilesRealizedInBatches ==
    /\ [](/\ 0 <= loaded_count /\ loaded_count <= Len(tiles)
          /\ \A k \in 1..Len(tiles) : Realized(k) <=> k <= loaded_count)
    /\ [][(LoadTimerFire /\ tiles' # tiles) =>
              loaded_count' = loaded_count + Min2(batch_size, Len(tiles) - loaded_count)]_vars
    /\ [][(\E k \in 1..Len(tiles) : Realized(k) /\ (k > Len(tiles') \/ tiles'[k] = None))
              => RebuildStep]_vars

\* ------------------------------------------------------------------------
\* C23
\* ------------------------------------------------------------------------
\* a step of a handler that changes the selection in the gallery or rebuilds it
SelectionStep == Prev \/ Next_ \/ Up \/ Down \/ Jump \/ TileClick \/ RebuildStep

\* C23: a selection change or rebuild that leaves the application in gallery
\* mode with a valid Selection Index returns (the loop of _ensure_loaded_upto
\* ends) and leaves the tile at the Selection Index realized:
\* index < loaded_count.
C23_EnsureVisibleTerminates ==
    [][(SelectionStep /\ mode' = "gallery" /\ 0 <= index' /\ index' < Len(images'))
          => (~hung' /\ index' < loaded_count')]_vars

\* ------------------------------------------------------------------------
\* C25
\* ------------------------------------------------------------------------
\* a step in which the deferred load-more check ran a batch load, whether
\* the batch came to its end or not
TimerBatchStep == LoadTimerFire /\ (tiles' # tiles \/ loading' # loading)

\* C25: however the pending load-more check interleaves with the user's
\* actions, the batch it runs reads only positions of the Collection that
\* exist (its range loaded_count .. end - 1 lies below len(Collection)), and
\* between handlers, when no batch load is executing, the guard flag
\* _gallery_loading is false.
C25_BatchReadsExistingPositions ==
    /\ [](~loading)
    /\ [][TimerBatchStep => Min2(Len(tiles), loaded_count + batch_size) <= Len(images)]_vars

\* ------------------------------------------------------------------------
\* C24
\* ------------------------------------------------------------------------
\* the gallery is shown, some tiles are still placeholders and a load-more
\* check is pending
LoadPending == mode = "gallery" /\ ~hung /\ loaded_count < Len(tiles) /\ queue.load > 0

\* C24: every handler that raises loaded_count leaves one load-more check
\* pending; and, the pending check firing fairly, from a gallery with
\* placeholders left and a check pending every tile is eventually realized
\* (loaded_count = len(tiles)), unless the gallery is left, the tile
\* sequence is rebuilt, or a check finds the view away from the bottom.
C24_LoadingMakesProgress ==
    /\ [][loaded_count' > loaded_count => (load_after' /\ queue'.load = 1)]_vars
    /\ LoadPending ~> (loaded_count = Len(tiles) \/ mode = "viewer" \/ run = <<"disturbed">>)

\* the pending check has just loaded the last tiles of a folder larger than
\* one batch, while the first tile is selected
C24_Witness ==
    /\ run = <<"loaded">>
    /\ mode = "gallery"
    /\ Len(tiles) = ManyFiles
    /\ loaded_count = Len(tiles)
    /\ index = 0
    /\ Highlighted = {1}

\* ------------------------------------------------------------------------
\* C26
\* ------------------------------------------------------------------------
\* the files of a folder and of its .deleted folder
FilesIn(d, dir) == {p \in d : p[1] \in {dir, DeletedDirOf(dir)}}

\* C26: no file is lost or overwritten.  Every handler, delete and undo
\* included, successful or failed, leaves the number of files in F plus
\* F/.deleted as it was (only another program's creating a file changes
\* it); every Collection entry names an existing file of the chosen folder;
\* and while an UndoRecord is live its moved-to file exists in the .deleted
\* folder of the chosen folder, and neither that file nor the path the
\* image was deleted from is in the Collection.
C26_NoFileLost ==
    /\ [](/\ \A k \in 1..Len(images) : images[k] \in disk /\ images[k][1] = folder
          /\ last_deleted # None =>
                /\ last_deleted[1] = folder
                /\ last_deleted[2] \in disk
                /\ last_deleted[2][1] = DeletedDirOf(folder)
                /\ last_deleted[2] \notin Range(images)
                /\ <<last_deleted[1], last_deleted[4]>> \notin Range(images))
    /\ [][created' = created =>
             Cardinality(FilesIn(disk', FolderF)) = Cardinality(FilesIn(disk, FolderF))]_vars

\* an image was deleted, and another program has since created a file under
\* the name it had: the record is live, both files exist
C26_Witness ==
    /\ last_deleted # None
    /\ <<last_deleted[1], last_deleted[4]>> \in created
    /\ last_deleted[2] \in disk
    /\ images # <<>>

====
